---- MODULE Spec2Model ----
(***************************************************************************)
(* A model of the ZIMP rule engine: Game (src/game.py) driving Tile        *)
(* (src/tile.py) and TileDeck (src/tile_deck.py).  Board, Player and the   *)
(* development-card deck are not part of the sources at hand and are       *)
(* modelled from the specification document.                               *)
(***************************************************************************)
EXTENDS Integers, Sequences, FiniteSets, TLC

VARIABLES player, board, completed_turn_sequence, gui, reported, call

vars == <<player, board, completed_turn_sequence, gui, reported, call>>

(***************************************************************************)
(* Bounds of the model.                                                    *)
(***************************************************************************)
\* cards in the development-card deck at construction
DevDeckSize == 2
\* the same, for the long game in a small house
LongDevDeckSize == 5
\* answers typed at one prompt before the handler is considered blocked
MaxAnswers == 2
\* cards in the deck of the game played for the totem
TotemDevDeckSize == 5
\* the largest attack score and the largest horde in the fights tried
MaxAttack == 12
MaxZombies == 12
\* fights served in a row to one player
MaxFights == 4
\* calls made on a tile deck on its own
MaxDeckCalls == 5

(***************************************************************************)
(* Program constants.                                                      *)
(***************************************************************************)
MaxDamage == 4
BashZombies == 3
CowerHeal == 3
ItemCapacity == 2
StartHealth == 6
StartAttack == 1

NoTile == [name |-> "None", exits |-> {}, tile_type |-> "None"]
NoDir == "-"
NoLocation == <<>>

(***************************************************************************)
(* Directions.                                                             *)
(***************************************************************************)
Dirs == {"N", "E", "S", "W"}

\* str.upper() on the strings the model feeds to the handlers
Upper(str) ==
  CASE str = "n" -> "N"
    [] str = "e" -> "E"
    [] str = "s" -> "S"
    [] str = "w" -> "W"
    [] str = "f" -> "F"
    [] str = "r" -> "R"
    [] str = "y" -> "Y"
    [] OTHER -> str

_opposite_direction(direction) ==
  CASE direction = "N" -> "S"
    [] direction = "E" -> "W"
    [] direction = "S" -> "N"
    [] direction = "W" -> "E"
    [] OTHER -> "Invalid direction"

\* Game._update_location, on an explicit location
UpdateLocationFrom(location, direction) ==
  CASE direction = "E" -> <<location[1], location[2] + 1>>
    [] direction = "W" -> <<location[1], location[2] - 1>>
    [] direction = "N" -> <<location[1] - 1, location[2]>>
    [] direction = "S" -> <<location[1] + 1, location[2]>>
    [] OTHER -> NoLocation

(***************************************************************************)
(* Tile.  exits is the set of keys of the exits dict that map to True; the *)
(* dict is built with the four keys N, E, S, W.                            *)
(***************************************************************************)
Tile(name, exits, tile_type) ==
  [name |-> name, exits |-> exits, tile_type |-> tile_type]

possible_exits(tile) == tile.exits

\* add_exit tests `direction in 'NESW'`, a substring test
SubstringsOfNESW ==
  {"", "N", "E", "S", "W", "NE", "ES", "SW", "NES", "ESW", "NESW"}

add_exit(tile, direction) ==
  IF direction \in SubstringsOfNESW
    THEN [ok |-> TRUE, tile |-> [tile EXCEPT !.exits = @ \cup {direction}]]
    ELSE [ok |-> FALSE, tile |-> tile]

\* a table that knows the quarter turn only
QuarterTurnAlways(exit, entry) == 1

\* the lookup table of rotate: rotations[exit][entry]
Rotations(exit, entry) ==
  CASE exit = "N" ->
         (CASE entry = "N" -> 2 [] entry = "E" -> 1 [] entry = "S" -> 0 [] entry = "W" -> 3)
    [] exit = "E" ->
         (CASE entry = "N" -> 3 [] entry = "E" -> 2 [] entry = "S" -> 1 [] entry = "W" -> 0)
    [] exit = "S" ->
         (CASE entry = "N" -> 0 [] entry = "E" -> 3 [] entry = "S" -> 2 [] entry = "W" -> 1)
    [] exit = "W" ->
         (CASE entry = "N" -> 1 [] entry = "E" -> 0 [] entry = "S" -> 3 [] entry = "W" -> 2)

\* zip('NESW', 'WNEN'): a slip in the second string
PrevDirSlip(direction) ==
  CASE direction = "N" -> "W"
    [] direction = "E" -> "N"
    [] direction = "S" -> "E"
    [] direction = "W" -> "N"

\* zip('NESW', 'WNES'): the side a direction takes its value from
PrevDir(direction) ==
  CASE direction = "N" -> "W"
    [] direction = "E" -> "N"
    [] direction = "S" -> "E"
    [] direction = "W" -> "S"

\* one pass of the loop body of rotate: a clockwise quarter turn
RotateOnce(exits) == {d \in Dirs : PrevDir(d) \in exits}

RECURSIVE RotateTimes(_, _)
RotateTimes(exits, n) ==
  IF n = 0 THEN exits ELSE RotateTimes(RotateOnce(exits), n - 1)

\* rotate that leaves the tile as it was drawn
RotateNever(tile, entry, exit) == tile

rotate(tile, entry, exit) ==
  [tile EXCEPT !.exits = RotateTimes(@, Rotations(exit, entry))]

(***************************************************************************)
(* TileDeck: the list of tiles and the separately kept count.              *)
(***************************************************************************)
TileDeck(tiles) == [tiles |-> tiles, count |-> Len(tiles)]

RemoveAt(seq, i) ==
  [k \in 1..(Len(seq) - 1) |-> IF k < i THEN seq[k] ELSE seq[k + 1]]

\* draw that takes the tile at the bottom of the deck
DrawFromBottom(deck) ==
  IF deck.count > 0
    THEN [tile |-> deck.tiles[Len(deck.tiles)],
          deck |-> [tiles |-> SubSeq(deck.tiles, 1, Len(deck.tiles) - 1),
                    count |-> deck.count - 1]]
    ELSE [tile |-> NoTile, deck |-> deck]

\* draw that slips the tile back under the deck
DrawAndPutBack(deck) ==
  IF deck.count > 0
    THEN [tile |-> Head(deck.tiles),
          deck |-> [tiles |-> Append(Tail(deck.tiles), Head(deck.tiles)),
                    count |-> deck.count - 1]]
    ELSE [tile |-> NoTile, deck |-> deck]

draw(deck) ==
  IF deck.count > 0
    THEN [tile |-> Head(deck.tiles),
          deck |-> [tiles |-> Tail(deck.tiles), count |-> deck.count - 1]]
    ELSE [tile |-> NoTile, deck |-> deck]

\* draw_by_name that takes the last tile of that name
DrawLastByName(deck, name) ==
  LET hits == {i \in 1..Len(deck.tiles) : deck.tiles[i].name = name}
  IN IF hits = {}
       THEN [tile |-> NoTile, deck |-> deck]
       ELSE LET i == CHOOSE j \in hits : \A k \in hits : j >= k
            IN [tile |-> deck.tiles[i],
                deck |-> [tiles |-> RemoveAt(deck.tiles, i),
                          count |-> deck.count - 1]]

draw_by_name(deck, name) ==
  LET hits == {i \in 1..Len(deck.tiles) : deck.tiles[i].name = name}
  IN IF hits = {}
       THEN [tile |-> NoTile, deck |-> deck]
       ELSE LET i == CHOOSE j \in hits : \A k \in hits : j <= k
            IN [tile |-> deck.tiles[i],
                deck |-> [tiles |-> RemoveAt(deck.tiles, i),
                          count |-> deck.count - 1]]

(***************************************************************************)
(* Game data.  The tile and card assets are not part of the sources; the   *)
(* catalogues below are small samples of what the tile-supply and card     *)
(* providers hand over.                                                    *)
(***************************************************************************)
StartCoordinates == <<0, 0>>

TimeLabels == <<"9 PM", "10 PM", "11 PM">>

FinalTime == "11 PM"

\* the Foyer has a single exit; its side is a matter of the asset data
FoyerExitChoices == {"N", "E", "S"}

\* the native exits of the Dining Room, N being the doorway to the Patio
DiningRoomExitChoices == {{"N", "E", "S", "W"}, {"N", "E"}}

FoyerTile(exit) == Tile("Foyer", {exit}, "Indoor")

PatioTile == Tile("Patio", {"N", "E"}, "Outdoor")

IndoorCatalogue(diningExits) ==
  { Tile("Storage", {"N"}, "Indoor"),
    Tile("Evil Temple", {"E", "W"}, "Indoor"),
    Tile("Dining Room", diningExits, "Indoor") }

OutdoorCatalogue ==
  { Tile("Graveyard", {"E", "S"}, "Outdoor"),
    Tile("Garden", {"N", "E", "W"}, "Outdoor") }

\* random.shuffle: every ordering of the tiles of a deck
Shuffles(tiles) ==
  LET n == Cardinality(tiles)
  IN {q \in [1..n -> tiles] : \A i, j \in 1..n : i /= j => q[i] /= q[j]}

ItemNames == {"Oil", "Soda Can", "Machete"}

\* what a development card shows at the current time: zombies, an item
\* find, or a health change
CardContents ==
  { [text |-> "zombies", value |-> 6],
    [text |-> "ITEM", value |-> 0],
    [text |-> "A bat poops in your eye", value |-> -1] }

\* what is typed at the prompts and given to the handlers
DirectionInputs == {"N", "E", "S", "W", "s", "X"}

ActionInputs == {"F", "R", "r", "X"}

YesNoInputs == {"Y", "N", "y", "X"}

ItemInputs == ItemNames \cup {"oil"}

(***************************************************************************)
(* Prompt loops: input is read until an answer of the valid set arrives.   *)
(***************************************************************************)
NoAnswer == "<none>"

AnswerSeqs(inputs) == UNION {[1..n -> inputs] : n \in 1..MaxAnswers}

RECURSIVE FirstValid(_, _, _)
FirstValid(answers, valid, upper) ==
  IF answers = <<>>
    THEN NoAnswer
    ELSE LET a == IF upper THEN Upper(Head(answers)) ELSE Head(answers)
         IN IF a \in valid THEN a ELSE FirstValid(Tail(answers), valid, upper)

\* the answers a `while answer not in valid` loop can end with
Accepted(inputs, valid, upper) ==
  {FirstValid(q, valid, upper) : q \in AnswerSeqs(inputs)} \ {NoAnswer}

\* the same, tabulated per prompt and valid set
DirectionTable ==
  {[valid |-> v, answers |-> Accepted(DirectionInputs, v, TRUE)] : v \in SUBSET Dirs}

AcceptedDirections(valid) ==
  (CHOOSE row \in DirectionTable : row.valid = valid).answers

AcceptedActions == Accepted(ActionInputs, {"F", "R"}, TRUE)

AcceptedYesNo == Accepted(YesNoInputs, {"Y", "N"}, TRUE)

ItemTable ==
  {[valid |-> v, answers |-> Accepted(ItemInputs, v, FALSE)] : v \in SUBSET ItemNames}

AcceptedItems(valid) ==
  (CHOOSE row \in ItemTable : row.valid = valid).answers

(***************************************************************************)
(* Player and Board.                                                       *)
(***************************************************************************)
Player(start_coordinates) ==
  [location |-> start_coordinates, health |-> StartHealth,
   attack |-> StartAttack, items |-> <<>>, has_totem |-> FALSE]

take_damage(p, damage) == [p EXCEPT !.health = @ - damage]

Board(start_coordinates, indoor, outdoor, cards) ==
  LET f == draw_by_name(TileDeck(indoor), "Foyer")
      p == draw_by_name(TileDeck(outdoor), "Patio")
  IN [tile_map |-> [c \in {start_coordinates} |-> f.tile],
      indoor_tiles |-> f.deck,
      outdoor_tiles |-> p.deck,
      dev_cards |-> [count |-> cards],
      time |-> TimeLabels[1],
      foyer_tile |-> f.tile,
      patio_tile |-> p.tile]

is_explored(b, location) == location \in DOMAIN b.tile_map

\* Board.place / tile_map[location] = tile
PlaceTile(b, location, tile) ==
  [b EXCEPT !.tile_map =
     [c \in DOMAIN @ \cup {location} |-> IF c = location THEN tile ELSE @[c]]]

\* the deck is chosen by the category of the room the player leaves
draw_tile(b, current_room) ==
  IF current_room.tile_type = "Outdoor"
    THEN LET d == draw(b.outdoor_tiles)
         IN [tile |-> d.tile, tile_type |-> "Outdoor tiles",
             board |-> [b EXCEPT !.outdoor_tiles = d.deck]]
    ELSE LET d == draw(b.indoor_tiles)
         IN [tile |-> d.tile, tile_type |-> "Indoor tiles",
             board |-> [b EXCEPT !.indoor_tiles = d.deck]]

TimeIndex(label) == CHOOSE i \in 1..Len(TimeLabels) : TimeLabels[i] = label

update_time(b) ==
  IF TimeIndex(b.time) < Len(TimeLabels)
    THEN [b EXCEPT !.time = TimeLabels[TimeIndex(b.time) + 1]]
    ELSE b

(***************************************************************************)
(* Game.  The handlers are operators on a record s of the six variables;   *)
(* a handler that reads input yields the set of states it can end in.      *)
(*   call      what the handler under way was asked and how it ended       *)
(*   reported  the GAME OVER / WIN lines printed so far                    *)
(***************************************************************************)
NewCall(op, dir) ==
  [op |-> op, dir |-> dir, result |-> "running", resolved |-> 0,
   drawn |-> NoTile, entered |-> NoLocation, choices |-> <<>>]

Running(s) == s.call.result = "running"

Finish(s, result) ==
  IF Running(s) THEN [s EXCEPT !.call.result = result] ELSE s

\* a request turned down up front: nothing but the refusal is on record
Refuse(s, result) ==
  [s EXCEPT !.call = [NewCall(s.call.op, NoDir) EXCEPT !.result = result]]

\* an exception no handler catches ends the program where it stands
Crash(s) == [s EXCEPT !.call.result = "crashed"]

\* a prompt whose valid set is empty is never left
Hang(s) == [s EXCEPT !.call.result = "hung"]

Chose(s, prompt, answer, valid) ==
  [s EXCEPT !.call.choices =
     Append(@, [prompt |-> prompt, answer |-> answer, valid |-> valid])]

Snapshot(s) ==
  [cards_count |-> s.board.dev_cards.count,
   current_time |-> s.board.time,
   indoor_count |-> s.board.indoor_tiles.count,
   outdoor_count |-> s.board.outdoor_tiles.count,
   health |-> s.player.health,
   attack |-> s.player.attack,
   items |-> s.player.items,
   location |-> s.player.location]

_update_gui_labels(s) == [s EXCEPT !.gui = Snapshot(s)]

_current_room(s) == s.board.tile_map[s.player.location]

_update_location(s, direction) ==
  UpdateLocationFrom(s.player.location, direction)

\* _game_over that moves the clock at every evaluation
GameOverClockEveryTime(s) ==
  IF s.board.dev_cards.count = 0 /\ s.board.time = FinalTime
    THEN [over |-> TRUE, s |-> [s EXCEPT !.reported = @ \cup {"time"}]]
    ELSE LET s1 == [s EXCEPT !.board = update_time(@)]
         IN IF s1.player.health <= 0
              THEN [over |-> TRUE, s |-> [s1 EXCEPT !.reported = @ \cup {"died"}]]
              ELSE [over |-> FALSE, s |-> _update_gui_labels(s1)]

\* the result and the state the evaluation leaves
_game_over(s) ==
  IF s.board.dev_cards.count = 0 /\ s.board.time = FinalTime
    THEN [over |-> TRUE, s |-> [s EXCEPT !.reported = @ \cup {"time"}]]
    ELSE LET s1 == IF s.board.dev_cards.count = 0
                     THEN [s EXCEPT !.board = update_time(@)]
                     ELSE s
         IN IF s1.player.health <= 0
              THEN [over |-> TRUE, s |-> [s1 EXCEPT !.reported = @ \cup {"died"}]]
              ELSE [over |-> FALSE, s |-> _update_gui_labels(s1)]

Min(a, b) == IF a <= b THEN a ELSE b

\* _fight_zombies without the cap of line 213
FightUncapped(s, num_zombies) ==
  LET damage == num_zombies - s.player.attack
  IN IF damage >= 0 THEN [s EXCEPT !.player = take_damage(@, damage)] ELSE s

_fight_zombies(s, num_zombies) ==
  LET damage == num_zombies - s.player.attack
  IN IF damage >= 0
       THEN [s EXCEPT !.player = take_damage(@, Min(damage, MaxDamage))]
       ELSE s

\* _update_attack in which only the three named weapons count for line 246
AttackOfWeaponsOnly(s, item) ==
  LET s1 == IF item = "Soda Can" THEN [s EXCEPT !.player.health = @ + 2] ELSE s
      s2 == IF item \in {"Golf Club", "Grisly Femur", "Board with Nails"}
              THEN [s1 EXCEPT !.player.attack = @ + 1] ELSE s1
      s3 == IF item = "Machete" THEN [s2 EXCEPT !.player.attack = @ + 2] ELSE s2
  IN IF item = "Chainsaw" THEN [s3 EXCEPT !.player.attack = @ + 3] ELSE s3

\* `item == 'Golf Club' or 'Grisly Femur' or ...` is true of every item
_update_attack(s, item) ==
  LET s1 == IF item = "Soda Can" THEN [s EXCEPT !.player.health = @ + 2] ELSE s
      s2 == [s1 EXCEPT !.player.attack = @ + 1]
      s3 == IF item = "Machete" THEN [s2 EXCEPT !.player.attack = @ + 2] ELSE s2
  IN IF item = "Chainsaw" THEN [s3 EXCEPT !.player.attack = @ + 3] ELSE s3

Held(items) == {items[i] : i \in 1..Len(items)}

\* list.remove: the first occurrence goes
RemoveFirst(items, item) ==
  RemoveAt(items, CHOOSE i \in 1..Len(items) :
                    items[i] = item /\ \A k \in 1..(i - 1) : items[k] /= item)

\* replace_item that keeps what is held and adds the new item
KeepAndAdd(s, new_item) ==
  LET held == Held(s.player.items)
  IN IF held = {}
       THEN {Hang(s)}
       ELSE { [Chose(s, "item", a, held) EXCEPT
                 !.player.items = Append(@, new_item)]
              : a \in AcceptedItems(held) }

replace_item(s, new_item) ==
  LET held == Held(s.player.items)
  IN IF held = {}
       THEN {Hang(s)}
       ELSE { [Chose(s, "item", a, held) EXCEPT
                 !.player.items = Append(RemoveFirst(@, a), new_item)]
              : a \in AcceptedItems(held) }

\* dev_cards.draw(): one card less; what it shows is the shuffle's choice
DrawDevCard(s) == [s EXCEPT !.board.dev_cards.count = @ - 1]

\* _get_new_item that goes on to replace whatever the answer
ReplaceOnAnyAnswer(s) ==
  LET g == _game_over(s)
  IN IF g.over
       THEN {g.s}
       ELSE IF g.s.board.dev_cards.count = 0
         THEN {Crash(g.s)}
         ELSE LET s1 == DrawDevCard(g.s)
              IN UNION {
                   IF Len(s1.player.items) >= ItemCapacity
                     THEN UNION {
                            { IF Running(r) THEN _update_attack(r, new_item) ELSE r
                              : r \in replace_item(Chose(s1, "replace", a, {"Y", "N"}), new_item) }
                            : a \in AcceptedYesNo }
                     ELSE { _update_attack(
                              [s1 EXCEPT !.player.items = Append(@, new_item)], new_item) }
                   : new_item \in ItemNames }

_get_new_item(s) ==
  LET g == _game_over(s)
  IN IF g.over
       THEN {g.s}
       ELSE IF g.s.board.dev_cards.count = 0
         THEN {Crash(g.s)}
         ELSE LET s1 == DrawDevCard(g.s)
              IN UNION {
                   IF Len(s1.player.items) >= ItemCapacity
                     THEN UNION {
                            IF a = "Y"
                              THEN { IF Running(r) THEN _update_attack(r, new_item) ELSE r
                                     : r \in replace_item(Chose(s1, "replace", a, {"Y", "N"}), new_item) }
                              ELSE { Chose(s1, "replace", a, {"Y", "N"}) }
                            : a \in AcceptedYesNo }
                     ELSE { _update_attack(
                              [s1 EXCEPT !.player.items = Append(@, new_item)], new_item) }
                   : new_item \in ItemNames }

EscapeDirections(s) ==
  {d \in possible_exits(_current_room(s)) \cap Dirs :
     is_explored(s.board, _update_location(s, d))}

\* _escape_zombies that takes the health whatever is held
EscapeAtFullPrice(s) ==
  LET escape_directions == EscapeDirections(s)
  IN IF escape_directions = {}
       THEN {Hang(s)}
       ELSE { [Chose(s, "escape", d, escape_directions) EXCEPT
                 !.player.location = _update_location(s, d),
                 !.player.health = @ - 1]
              : d \in AcceptedDirections(escape_directions) }

_escape_zombies(s) ==
  LET escape_directions == EscapeDirections(s)
  IN IF escape_directions = {}
       THEN {Hang(s)}
       ELSE { LET s1 == [Chose(s, "escape", d, escape_directions) EXCEPT
                           !.player.location = _update_location(s, d)]
              IN IF "Oil" \in Held(s1.player.items)
                   THEN [s1 EXCEPT !.player.items = RemoveFirst(@, "Oil")]
                   ELSE [s1 EXCEPT !.player.health = @ - 1]
              : d \in AcceptedDirections(escape_directions) }

\* the set of <<state, runaway>> the prompt can end in
_runaway_or_fight(s, num_zombies) ==
  LET s0 == _update_gui_labels(s)
  IN UNION {
       LET s1 == Chose(s0, "action", a, {"F", "R"})
       IN IF a = "R"
            THEN {[s |-> r, runaway |-> TRUE] : r \in _escape_zombies(s1)}
            ELSE {[s |-> _fight_zombies(s1, num_zombies), runaway |-> FALSE]}
       : a \in AcceptedActions }

\* the room bonus handed out after a run as well
BonusAfterRun(s, runaway) ==
  IF ~Running(s)
    THEN {s}
    ELSE LET g == _game_over(s)
             room == _current_room(g.s)
             after ==
               IF ~g.over
                 THEN IF room.name = "Kitchen" \/ room.name = "Garden"
                        THEN {[g.s EXCEPT !.player.health = @ + 1]}
                        ELSE IF room.name = "Storage"
                          THEN _get_new_item(g.s)
                          ELSE {g.s}
                 ELSE {g.s}
         IN {IF Running(r) THEN _update_gui_labels(r) ELSE r : r \in after}

\* lines 150-158: the game-over evaluation, the room bonus, the labels
RoomBonus(s, runaway) ==
  IF ~Running(s)
    THEN {s}
    ELSE LET g == _game_over(s)
             room == _current_room(g.s)
             after ==
               IF ~g.over /\ ~runaway
                 THEN IF room.name = "Kitchen" \/ room.name = "Garden"
                        THEN {[g.s EXCEPT !.player.health = @ + 1]}
                        ELSE IF room.name = "Storage"
                          THEN _get_new_item(g.s)
                          ELSE {g.s}
                 ELSE {g.s}
         IN {IF Running(r) THEN _update_gui_labels(r) ELSE r : r \in after}

_resolve_dev_card(s) ==
  IF s.board.dev_cards.count = 0
    THEN {Crash(s)}
    ELSE LET s1 == [DrawDevCard(s) EXCEPT !.call.resolved = @ + 1]
         IN UNION {
              IF content.text = "zombies"
                THEN UNION {RoomBonus(p.s, p.runaway)
                            : p \in _runaway_or_fight(s1, content.value)}
                ELSE IF content.text = "ITEM"
                  THEN UNION {RoomBonus(r, FALSE) : r \in _get_new_item(s1)}
                  ELSE RoomBonus([s1 EXCEPT !.player.health = @ + content.value], FALSE)
              : content \in CardContents }

(***************************************************************************)
(* Tile placement.  Each operator yields <<state, tile>> pairs: the tile   *)
(* as it is stored at the player's location.                               *)
(***************************************************************************)
\* _place_patio_tile with the Patio laid as drawn on either side
PlacePatioAsDrawn(s, chosen_exit, dining_room) ==
  LET patio == s.board.patio_tile
      x == s.player.location[1]
      y == s.player.location[2]
  IN IF chosen_exit = "S"
       THEN [s |-> [s EXCEPT !.board = PlaceTile(@, <<x + 1, y>>, patio)],
             tile |-> rotate(dining_room, "S", "S")]
       ELSE [s |-> [s EXCEPT !.board = PlaceTile(@, <<x - 1, y>>, patio)],
             tile |-> dining_room]

_place_patio_tile(s, chosen_exit, dining_room) ==
  LET patio == s.board.patio_tile
      x == s.player.location[1]
      y == s.player.location[2]
  IN IF chosen_exit = "S"
       THEN [s |-> [s EXCEPT !.board = PlaceTile(@, <<x + 1, y>>, patio)],
             tile |-> rotate(dining_room, "S", "S")]
       ELSE LET turned == rotate(patio, "N", "N")
            IN [s |-> [s EXCEPT !.board =
                         PlaceTile([@ EXCEPT !.patio_tile = turned],
                                   <<x - 1, y>>, turned)],
                tile |-> dining_room]

\* _choose_entry taking any side for an answer
ChooseAnyEntry(s, chosen_exit, new_tile, possible_entries) ==
  { [s |-> Chose(s, "entry", chosen_entry, possible_entries),
     tile |-> rotate(new_tile, chosen_entry, chosen_exit)]
    : chosen_entry \in AcceptedDirections(Dirs) }

_choose_entry(s, chosen_exit, new_tile, possible_entries) ==
  { [s |-> Chose(s, "entry", chosen_entry, possible_entries),
     tile |-> rotate(new_tile, chosen_entry, chosen_exit)]
    : chosen_entry \in AcceptedDirections(possible_entries) }

_place_new_tile(s, chosen_exit, new_tile) ==
  LET possible_entries == possible_exits(new_tile)
      placed ==
        IF Cardinality(possible_entries) > 1
          THEN IF new_tile.name = "Dining Room"
                 THEN {_place_patio_tile(s, chosen_exit, new_tile)}
                 ELSE _choose_entry(s, chosen_exit, new_tile, possible_entries)
          ELSE { [s |-> s,
                  tile |-> rotate(new_tile, CHOOSE e \in possible_entries : TRUE,
                                  chosen_exit)] }
  IN UNION { _resolve_dev_card(
               [p.s EXCEPT !.board = PlaceTile(@, p.s.player.location, p.tile)])
             : p \in placed }

(***************************************************************************)
(* The four gameplay requests.                                             *)
(***************************************************************************)
\* _move_direction without the test of line 48
MoveThroughWalls(s, direction) == _update_location(s, direction)

\* None when the direction is no exit of the current room
_move_direction(s, direction) ==
  IF direction \notin possible_exits(_current_room(s))
    THEN NoLocation
    ELSE _update_location(s, direction)

\* the doors of the two rooms never need to meet
DoorsAlwaysAlign(s, dir, new_location) == TRUE

\* line 65: the explored room ahead has a door on the side the player enters
DoorsAlign(s, dir, new_location) ==
  _opposite_direction(dir) \in possible_exits(s.board.tile_map[new_location])

player_turn(s0, direction) ==
  LET dir == Upper(direction)
      s == [s0 EXCEPT !.call = NewCall("move", dir)]
      new_location == _move_direction(s, dir)
  IN IF new_location = NoLocation
       THEN {Refuse(s, "rejected")}
       ELSE LET done ==
                  IF is_explored(s.board, new_location)
                    THEN IF ~DoorsAlign(s, dir, new_location)
                           THEN {Refuse(s, "blocked")}
                           ELSE _resolve_dev_card(
                                  [s EXCEPT !.player.location = new_location,
                                            !.call.entered = new_location])
                    ELSE LET d == draw_tile(s.board, _current_room(s))
                         IN IF d.tile = NoTile
                              THEN {Refuse(s, "aborted")}
                              ELSE _place_new_tile(
                                     [s EXCEPT !.board = d.board,
                                               !.player.location = new_location,
                                               !.call.entered = new_location,
                                               !.call.drawn = d.tile],
                                     dir, d.tile)
            IN { IF Running(r)
                   THEN Finish([r EXCEPT !.completed_turn_sequence = TRUE], "done")
                   ELSE r
                 : r \in done }

\* a bash that leaves the walls as they are
LeaveWall(s, location, direction) == s

\* tile_map[location].add_exit(direction).  The Patio lies in the tile map
\* as the object board.patio_tile (lines 121 and 132), so an exit added to
\* the placed Patio shows in board.patio_tile as well.
AddExitAt(s, location, direction) ==
  LET tile == s.board.tile_map[location]
      opened == add_exit(tile, direction).tile
      s1 == [s EXCEPT !.board.tile_map[location] = opened]
  IN IF tile = s.board.patio_tile
       THEN [s1 EXCEPT !.board.patio_tile = opened]
       ELSE s1

\* bashing whatever the turn sequence
BashAnytime(s) == TRUE

\* line 285: bashing needs a completed turn sequence
BashAllowed(s) == s.completed_turn_sequence

\* no exit counts as open
NeverOpen(s, dir) == FALSE

\* line 296: the direction is an exit of the current room already
AlreadyOpen(s, dir) == dir \in possible_exits(_current_room(s))

bash_through_wall(s0, direction) ==
  LET dir == Upper(direction)
      s == [s0 EXCEPT !.call = NewCall("bash", dir)]
  IN IF ~BashAllowed(s)
       THEN {Refuse(s, "rejected")}
       ELSE IF dir \notin Dirs
         THEN {Refuse(s, "rejected")}
         ELSE IF AlreadyOpen(s, dir)
           THEN {Refuse(s, "rejected")}
           ELSE
             LET here == s.player.location
                 new_location == _update_location(s, dir)
                 done ==
                   IF is_explored(s.board, new_location)
                     THEN LET opp == _opposite_direction(dir)
                              s1 == IF opp \notin possible_exits(s.board.tile_map[new_location])
                                      THEN AddExitAt(s, new_location, opp)
                                      ELSE s
                              s2 == AddExitAt(s1, here, dir)
                          IN {_fight_zombies(
                                [s2 EXCEPT !.player.location = new_location,
                                           !.call.entered = new_location],
                                BashZombies)}
                     ELSE LET d == draw_tile(s.board, _current_room(s))
                          IN IF d.tile = NoTile
                               THEN {Refuse(s, "aborted")}
                               ELSE LET s1 == AddExitAt([s EXCEPT !.board = d.board],
                                                        here, dir)
                                        s2 == [s1 EXCEPT !.player.location = new_location,
                                                         !.call.entered = new_location,
                                                         !.call.drawn = d.tile]
                                    IN _place_new_tile(
                                         _fight_zombies(s2, BashZombies), dir, d.tile)
             IN { IF Running(r) THEN Finish(_game_over(r).s, "done") ELSE r
                  : r \in done }

\* cowering whatever the turn sequence
CowerAnytime(s) == TRUE

\* line 270: cowering needs a completed turn sequence
CowerAllowed(s) == s.completed_turn_sequence

cower(s0) ==
  LET s == [s0 EXCEPT !.call = NewCall("cower", NoDir)]
  IN IF ~CowerAllowed(s)
       THEN {Refuse(s, "rejected")}
       ELSE LET s1 == [s EXCEPT !.completed_turn_sequence = FALSE,
                                !.player.health = @ + CowerHeal]
                s2 == IF s1.board.dev_cards.count > 0 THEN DrawDevCard(s1) ELSE s1
            IN {Finish(_game_over(_update_gui_labels(s2)).s, "done")}

\* _find_totem that hands the totem over whatever the event brought
FindTotemRegardless(s) ==
  { IF Running(r) THEN [_game_over(r).s EXCEPT !.player.has_totem = TRUE] ELSE r
    : r \in _resolve_dev_card(s) }

_find_totem(s) ==
  { IF Running(r)
      THEN LET g == _game_over(r)
           IN IF ~g.over THEN [g.s EXCEPT !.player.has_totem = TRUE] ELSE g.s
      ELSE r
    : r \in _resolve_dev_card(s) }

\* _burry_totem that asks for no totem
BuryWithoutTotem(s) ==
  { IF Running(r)
      THEN LET g == _game_over(r)
           IN IF ~g.over THEN [g.s EXCEPT !.reported = @ \cup {"win"}] ELSE g.s
      ELSE r
    : r \in _resolve_dev_card(s) }

_burry_totem(s) ==
  IF ~s.player.has_totem
    THEN {Refuse(s, "rejected")}
    ELSE { IF Running(r)
             THEN LET g == _game_over(r)
                  IN IF ~g.over THEN [g.s EXCEPT !.reported = @ \cup {"win"}] ELSE g.s
             ELSE r
           : r \in _resolve_dev_card(s) }

find_or_burry_totem(s0) ==
  LET s == [s0 EXCEPT !.call = NewCall("totem", NoDir)]
      room == _current_room(s)
      done ==
        IF room.name = "Evil Temple"
          THEN _find_totem(s)
          ELSE IF room.name = "Graveyard"
            THEN _burry_totem(s)
            ELSE {Refuse(s, "rejected")}
  IN {Finish(r, "done") : r \in done}

(***************************************************************************)
(* The state machine: one step per request handled by the engine.          *)
(***************************************************************************)
State ==
  [player |-> player, board |-> board,
   completed_turn_sequence |-> completed_turn_sequence,
   gui |-> gui, reported |-> reported, call |-> call]

Becomes(r) ==
  /\ player' = r.player
  /\ board' = r.board
  /\ completed_turn_sequence' = r.completed_turn_sequence
  /\ gui' = r.gui
  /\ reported' = r.reported
  /\ call' = r.call

\* Game.__init__ and _setup
NewGame(indoor, outdoor, cards) ==
  LET s == [player |-> Player(StartCoordinates),
            board |-> Board(StartCoordinates, indoor, outdoor, cards),
            completed_turn_sequence |-> FALSE,
            gui |-> [cards_count |-> 0],
            reported |-> {},
            call |-> [NewCall("init", NoDir) EXCEPT !.result = "done"]]
  IN _update_gui_labels(s)

\* a game over any shuffle of the given tiles and a deck of `cards` cards
GameInit(foyerExits, diningExits, indoorNames, outdoorNames, cards) ==
  \E foyerExit \in foyerExits, dining \in diningExits :
    LET indoorTiles ==
          {FoyerTile(foyerExit)}
            \cup {x \in IndoorCatalogue(dining) : x.name \in indoorNames}
        outdoorTiles ==
          {PatioTile} \cup {x \in OutdoorCatalogue : x.name \in outdoorNames}
    IN \E indoor \in Shuffles(indoorTiles), outdoor \in Shuffles(outdoorTiles) :
         LET r == NewGame(indoor, outdoor, cards)
         IN /\ player = r.player
            /\ board = r.board
            /\ completed_turn_sequence = r.completed_turn_sequence
            /\ gui = r.gui
            /\ reported = r.reported
            /\ call = r.call

Init ==
  GameInit(FoyerExitChoices, DiningRoomExitChoices,
           {"Storage", "Evil Temple", "Dining Room"},
           {"Graveyard", "Garden"}, DevDeckSize)

\* a long game in a small house: Foyer, Storage and Evil Temple
InitLong ==
  GameInit({"N"}, {{"N", "E", "S", "W"}}, {"Storage", "Evil Temple"}, {},
           LongDevDeckSize)

\* The actions are the calls a client makes on a Game object, one at a time:
\* player_turn, bash_through_wall, cower and find_or_burry_totem.  The game
\* is played on until an uncaught exception or an endless prompt.
Alive == call.result \notin {"crashed", "hung"}

PlayerTurn ==
  /\ Alive
  /\ \E direction \in DirectionInputs :
       \E r \in player_turn(State, direction) : Becomes(r)

BashThroughWall ==
  /\ Alive
  /\ \E direction \in DirectionInputs :
       \E r \in bash_through_wall(State, direction) : Becomes(r)

Cower ==
  /\ Alive
  /\ \E r \in cower(State) : Becomes(r)

FindOrBurryTotem ==
  /\ Alive
  /\ \E r \in find_or_burry_totem(State) : Becomes(r)

Next == PlayerTurn \/ BashThroughWall \/ Cower \/ FindOrBurryTotem

Spec == Init /\ [][Next]_vars

SpecLong == InitLong /\ [][Next]_vars

(***************************************************************************)
(* The game played for the totem: Foyer, Evil Temple and Dining Room       *)
(* indoors, Patio and Graveyard outdoors.                                  *)
(***************************************************************************)
InitTotem ==
  GameInit({"N"}, {{"N", "E", "S", "W"}}, {"Evil Temple", "Dining Room"},
           {"Graveyard"}, TotemDevDeckSize)

SpecTotem == InitTotem /\ [][Next]_vars

(***************************************************************************)
(* The command shell of console.py, one client of the Game.  Its `go`      *)
(* asks the game for check_game_state(), a method Game does not define:    *)
(* the AttributeError is raised before player_turn is called, do_go        *)
(* catches TypeError only, and the exception ends the command loop.  The   *)
(* other commands pass their argument on to the Game as it stands.         *)
(***************************************************************************)
\* Cmd.cmdloop takes commands until one raises or do_quit returns True
Looping ==
  /\ call.result \notin {"crashed", "hung", "raised"}
  /\ call.op # "quit"

\* Console.do_go: the call of check_game_state raises, nothing else is done
do_go(s, direction) ==
  {[s EXCEPT !.call = [NewCall("go", direction) EXCEPT !.result = "raised"]]}

\* Console.do_details: the player's details are printed
do_details(s) ==
  {[s EXCEPT !.call = [NewCall("details", NoDir) EXCEPT !.result = "done"]]}

\* Console.do_quit: the window is destroyed and the loop is left
do_quit(s) ==
  {[s EXCEPT !.call = [NewCall("quit", NoDir) EXCEPT !.result = "done"]]}

DoGo ==
  /\ Looping
  /\ \E direction \in DirectionInputs :
       \E r \in do_go(State, direction) : Becomes(r)

DoBash ==
  /\ Looping
  /\ \E direction \in DirectionInputs :
       \E r \in bash_through_wall(State, direction) : Becomes(r)

DoTotem ==
  /\ Looping
  /\ \E r \in find_or_burry_totem(State) : Becomes(r)

DoCower ==
  /\ Looping
  /\ \E r \in cower(State) : Becomes(r)

DoDetails ==
  /\ Looping
  /\ \E r \in do_details(State) : Becomes(r)

DoQuit ==
  /\ Looping
  /\ \E r \in do_quit(State) : Becomes(r)

NextConsole == DoGo \/ DoBash \/ DoTotem \/ DoCower \/ DoDetails \/ DoQuit

SpecConsole == Init /\ [][NextConsole]_vars

\* Through the shell no turn is ever completed: `go` ends the loop, and bash
\* and cower are turned down while completed_turn_sequence is False.
ConsoleStaysAtStart ==
  /\ completed_turn_sequence = FALSE
  /\ player = Player(StartCoordinates)
  /\ DOMAIN board.tile_map = {StartCoordinates}
  /\ reported = {}

(***************************************************************************)
(* Fights on their own: a player of any attack score meets hordes of any   *)
(* size, MaxFights times in a row, on below a health of zero.              *)
(***************************************************************************)
InitFight ==
  \E attack \in 0..MaxAttack :
    LET r == NewGame(<<FoyerTile("N")>>, <<PatioTile>>, DevDeckSize)
    IN /\ player = [r.player EXCEPT !.attack = attack]
       /\ board = r.board
       /\ completed_turn_sequence = r.completed_turn_sequence
       /\ gui = r.gui
       /\ reported = r.reported
       /\ call = r.call

\* _fight_zombies is served at any health, spent or not; call.resolved
\* counts the fights so far
Fight ==
  /\ call.resolved < MaxFights
  /\ \E num_zombies \in 0..MaxZombies :
       Becomes(Finish(_fight_zombies(
                        [State EXCEPT !.call = [NewCall("fight", NoDir) EXCEPT
                                                  !.resolved = call.resolved + 1]],
                        num_zombies), "done"))

SpecFight == InitFight /\ [][Fight]_vars

(***************************************************************************)
(* Tiles on their own: a tile of any exits, turned for any entry side and   *)
(* any direction of arrival.  For these steps call.drawn is the tile as it *)
(* lay when the pair (entry, exit) was first given and call.resolved the   *)
(* number of turns made with that pair in a row, counted up to 4.          *)
(***************************************************************************)
InitTiles ==
  \E exits \in SUBSET Dirs :
    LET r == NewGame(<<Tile("Foyer", exits, "Indoor")>>, <<PatioTile>>, DevDeckSize)
    IN /\ player = r.player
       /\ board = r.board
       /\ completed_turn_sequence = r.completed_turn_sequence
       /\ gui = r.gui
       /\ reported = r.reported
       /\ call = r.call

\* tile.rotate(entry, exit) on the tile under the player
Rotate ==
  \E entry \in Dirs, exit \in Dirs :
    LET tile == _current_room(State)
        again == /\ call.op = "rotate"
                 /\ call.dir = exit
                 /\ call.choices[1].answer = entry
                 /\ call.resolved < 4
        s == Chose([State EXCEPT !.call = [NewCall("rotate", exit) EXCEPT
                      !.drawn = IF again THEN call.drawn ELSE tile,
                      !.resolved = IF again THEN call.resolved + 1 ELSE 1,
                      !.entered = player.location]],
                   "entry", entry, possible_exits(tile))
    IN Becomes(Finish([s EXCEPT !.board = PlaceTile(@, player.location,
                                                    rotate(tile, entry, exit))],
                      "done"))

SpecTiles == InitTiles /\ [][Rotate]_vars

(***************************************************************************)
(* Exits added to a tile on their own: a tile of any exits is handed any   *)
(* string for a direction.  A call that raises leaves "raised" in          *)
(* call.result; call.drawn is the tile as it lay before the call.          *)
(***************************************************************************)
\* what add_exit is handed: the four directions and other strings
ExitInputs == {"N", "E", "S", "W", "", "NE", "NESW", "SN", "n", "X"}

\* tile.add_exit(direction) on the tile under the player
AddExit ==
  \E direction \in ExitInputs :
    LET tile == _current_room(State)
        a == add_exit(tile, direction)
        s == [State EXCEPT !.call = [NewCall("add_exit", direction) EXCEPT
                                       !.drawn = tile,
                                       !.entered = player.location]]
    IN Becomes(Finish([s EXCEPT !.board = PlaceTile(@, player.location, a.tile)],
                      IF a.ok THEN "done" ELSE "raised"))

SpecExits == InitTiles /\ [][AddExit]_vars

(***************************************************************************)
(* A tile deck on its own: the indoor deck of a board, of any tiles in any *)
(* order, is drawn from the top and by name.  For these steps call.drawn   *)
(* is what the call returned and call.choices the calls made so far, each  *)
(* with the name asked for, the tile returned and the tiles of the deck as *)
(* they lay before the call.                                               *)
(***************************************************************************)
\* tiles a deck is made of; two of them share a name
DeckCatalogue ==
  { Tile("Bathroom", {"N"}, "Indoor"),
    Tile("Bathroom", {"E", "W"}, "Indoor"),
    Tile("Kitchen", {"N", "E"}, "Indoor"),
    Tile("Bedroom", {"S"}, "Indoor") }

\* names asked for; no tile is called Attic
DeckNames == {"Bathroom", "Kitchen", "Attic"}

InitDeck ==
  \E tiles \in SUBSET DeckCatalogue :
    \E q \in Shuffles(tiles) :
      LET r == NewGame(<<FoyerTile("N")>> \o q, <<PatioTile>>, DevDeckSize)
      IN /\ player = r.player
         /\ board = r.board
         /\ completed_turn_sequence = r.completed_turn_sequence
         /\ gui = r.gui
         /\ reported = r.reported
         /\ call = r.call

\* the state after a call on the indoor deck that gave d
DeckCall(op, name, d) ==
  [State EXCEPT
     !.board.indoor_tiles = d.deck,
     !.call = [NewCall(op, NoDir) EXCEPT
                 !.result = "done",
                 !.drawn = d.tile,
                 !.choices = Append(call.choices,
                                    [op |-> op, name |-> name, tile |-> d.tile,
                                     before |-> board.indoor_tiles.tiles])]]

\* indoor_tiles.draw()
Draw ==
  /\ Len(call.choices) < MaxDeckCalls
  /\ Becomes(DeckCall("draw", NoAnswer, draw(board.indoor_tiles)))

\* indoor_tiles.draw_by_name(name)
DrawByName ==
  /\ Len(call.choices) < MaxDeckCalls
  /\ \E name \in DeckNames :
       Becomes(DeckCall("draw_by_name", name, draw_by_name(board.indoor_tiles, name)))

NextDeck == Draw \/ DrawByName

SpecDeck == InitDeck /\ [][NextDeck]_vars

(***************************************************************************)
(* Properties.  A step of a request leaves the request in call', so        *)
(* call'.op and call'.result tell which handler ran and how it ended.      *)
(***************************************************************************)
\* the handler result r leaves everything but the record of the call alone
Same(r) ==
  /\ r.player = player
  /\ r.board = board
  /\ r.completed_turn_sequence = completed_turn_sequence
  /\ r.gui = gui
  /\ r.reported = reported

Untouched == UNCHANGED <<player, board, completed_turn_sequence, gui, reported>>

\* C1: a cower is accepted only while completed_turn_sequence is set and an
\* accepted cower clears it; a cower while the flag is clear (at game start,
\* directly after an accepted cower) is rejected and changes nothing; the
\* flag rises only in a completed move, so a completed move lies between
\* any two accepted cowers.
C1_CowerNeedsCompletedTurn ==
  [][ /\ (call'.op = "cower" /\ call'.result = "done")
           => (completed_turn_sequence /\ ~completed_turn_sequence')
      /\ (call'.op = "cower" /\ ~completed_turn_sequence)
           => (call'.result = "rejected" /\ Untouched)
      /\ (~completed_turn_sequence /\ completed_turn_sequence')
           => (call'.op = "move" /\ call'.result = "done")
    ]_vars

\* a cower turned down after play began: rooms were explored, so a move had
\* set the flag, and only an accepted cower can have cleared it since
C1_Witness ==
  /\ call.op = "cower"
  /\ call.result = "rejected"
  /\ ~completed_turn_sequence
  /\ DOMAIN board.tile_map /= {StartCoordinates}

\* C2: a bash while completed_turn_sequence is clear is rejected with no
\* change of state; the flag is set only by a completed move or bash and
\* cleared only by an accepted cower, so totem requests and rejected,
\* blocked or aborted requests leave it as it is.
C2_BashNeedsCompletedTurn ==
  [][ /\ (call'.op = "bash" /\ ~completed_turn_sequence)
           => (call'.result = "rejected" /\ Untouched)
      /\ (completed_turn_sequence' /= completed_turn_sequence)
           => /\ call'.result = "done"
              /\ IF completed_turn_sequence'
                   THEN call'.op \in {"move", "bash"}
                   ELSE call'.op = "cower"
      /\ (call'.op = "totem" \/ call'.result \in {"rejected", "blocked", "aborted"})
           => UNCHANGED completed_turn_sequence
    ]_vars

\* a bash turned down for the flag after an accepted cower
C2_Witness ==
  /\ call.op = "bash"
  /\ call.result = "rejected"
  /\ ~completed_turn_sequence
  /\ DOMAIN board.tile_map /= {StartCoordinates}

\* C3, as claimed: once a GAME OVER or WIN line has been printed no request
\* changes the player or the board.  Game has no such gate.
C3_NoPlayAfterGameOver ==
  [][ reported /= {} => UNCHANGED <<player, board>> ]_vars

\* C4: a move in a direction that is no open exit of the current room is
\* rejected and changes nothing.
C4_MoveIntoWallRejected ==
  \A direction \in DirectionInputs :
    Upper(direction) \notin possible_exits(_current_room(State))
      => \A r \in player_turn(State, direction) :
           r.call.result = "rejected" /\ Same(r)

\* a move turned down in the course of play
C4_Witness ==
  /\ call.op = "move"
  /\ call.result = "rejected"
  /\ completed_turn_sequence

\* C5: a move toward an explored coordinate is blocked, with no change of
\* state, unless the room there has an open exit on the opposite side; a
\* move that completes has relocated the player to the target, resolved
\* exactly one event there and set the flag.
C5_MoveToExploredRoom ==
  \A direction \in DirectionInputs :
    LET dir == Upper(direction)
        target == _move_direction(State, dir)
    IN (target /= NoLocation /\ is_explored(board, target))
         => \A r \in player_turn(State, direction) :
              IF _opposite_direction(dir) \in possible_exits(board.tile_map[target])
                THEN /\ r.call.result /= "blocked"
                     /\ r.call.result = "done"
                          => /\ r.call.entered = target
                             /\ r.call.drawn = NoTile
                             /\ r.call.resolved = 1
                             /\ r.completed_turn_sequence
                ELSE r.call.result = "blocked" /\ Same(r)

\* a completed move into a room explored before
C5_Witness ==
  /\ call.op = "move"
  /\ call.result = "done"
  /\ call.drawn = NoTile
  /\ call.entered \in DOMAIN board.tile_map
  /\ call.resolved = 1
  /\ completed_turn_sequence

\* C6, as claimed: a request that finds its deck exhausted is abandoned with
\* the state as it was, and no request fails for want of an event card.
\* _resolve_dev_card and _get_new_item use the card drawn without testing it.
C6_ExhaustedDeckAbortsCleanly ==
  [][ /\ call'.result = "aborted" => Untouched
      /\ call'.result /= "crashed"
    ]_vars

\* C7, as claimed: after a completed move or bash into an unexplored
\* coordinate the tile stored where the player entered has an open exit on
\* the side it was entered from.  The Dining Room is never turned to the
\* arrival side.
C7_EntranceFacesArrival ==
  (call.op \in {"move", "bash"} /\ call.result = "done" /\ call.drawn /= NoTile)
    => _opposite_direction(call.dir) \in possible_exits(board.tile_map[call.entered])

\* the tile as it lies after a half turn
HalfTurn(tile) == [tile EXCEPT !.exits = RotateTimes(@, 2)]

\* the coordinate one row above (-1) or below (+1)
RowFrom(location, rows) == <<location[1] + rows, location[2]>>

\* C8, as claimed: the Dining Room entered heading south is turned half
\* round with the Patio as drawn one row below; entered heading north it is
\* left as drawn with the Patio as drawn one row above.
C8_PatioAsDrawnOnBothSides ==
  (call.drawn.name = "Dining Room" /\ call.dir \in {"N", "S"})
    => LET dining_room == board.tile_map[call.entered]
       IN IF call.dir = "S"
            THEN /\ dining_room = HalfTurn(call.drawn)
                 /\ RowFrom(call.entered, 1) \in DOMAIN board.tile_map
                 /\ board.tile_map[RowFrom(call.entered, 1)] = PatioTile
            ELSE /\ dining_room = call.drawn
                 /\ RowFrom(call.entered, -1) \in DOMAIN board.tile_map
                 /\ board.tile_map[RowFrom(call.entered, -1)] = PatioTile

\* C8: the Dining Room entered heading south is turned half round with the
\* Patio as drawn one row below; entered heading north it is left as drawn
\* with the Patio, turned half round, one row above.
C8_PatioTurnedWhenAbove ==
  (call.drawn.name = "Dining Room" /\ call.dir \in {"N", "S"})
    => LET dining_room == board.tile_map[call.entered]
       IN IF call.dir = "S"
            THEN /\ dining_room = HalfTurn(call.drawn)
                 /\ RowFrom(call.entered, 1) \in DOMAIN board.tile_map
                 /\ board.tile_map[RowFrom(call.entered, 1)] = PatioTile
            ELSE /\ dining_room = call.drawn
                 /\ RowFrom(call.entered, -1) \in DOMAIN board.tile_map
                 /\ board.tile_map[RowFrom(call.entered, -1)] = HalfTurn(PatioTile)

\* the Dining Room drawn and placed on a completed move north
C8_Witness ==
  /\ call.drawn.name = "Dining Room"
  /\ call.dir = "N"
  /\ call.result = "done"
  /\ RowFrom(call.entered, -1) \in DOMAIN board.tile_map

\* C9: every answer a handler went on with was of the valid set of its
\* prompt: the entry side is an open exit of the tile drawn and the side
\* the tile was turned by, the action is F or R, the escape direction is an
\* exit of the room fled that leads to an explored room, and the item given
\* up is one that was held.
C9_OnlyValidChoices ==
  \A i \in 1..Len(call.choices) :
    LET c == call.choices[i]
    IN /\ c.answer \in c.valid
       /\ c.prompt = "entry"
            => /\ c.valid = possible_exits(call.drawn)
               /\ board.tile_map[call.entered] = rotate(call.drawn, c.answer, call.dir)
       /\ c.prompt = "action" => c.answer \in {"F", "R"}
       /\ c.prompt = "replace" => c.answer \in {"Y", "N"}
       /\ c.prompt = "escape"
            => /\ c.answer \in Dirs
               /\ is_explored(board, player.location)
       /\ c.prompt = "item" => c.answer \in ItemNames

\* a request in which an entry side was chosen for a tile with several exits
\* and an item was given up for a new one
C9_Witness ==
  /\ \E i \in 1..Len(call.choices) : call.choices[i].prompt = "entry"
  /\ \E i \in 1..Len(call.choices) : call.choices[i].prompt = "item"

\* C10: a bash in a direction that is an open exit of the current room
\* already, or that is none of N, E, S, W, is rejected and changes nothing.
C10_NeedlessBashRejected ==
  \A direction \in DirectionInputs :
    (Upper(direction) \notin Dirs
       \/ Upper(direction) \in possible_exits(_current_room(State)))
      => \A r \in bash_through_wall(State, direction) :
           r.call.result = "rejected" /\ Same(r)

\* a bash turned down although the turn sequence was completed
C10_Witness ==
  /\ call.op = "bash"
  /\ call.result = "rejected"
  /\ completed_turn_sequence

\* what a fight with z zombies costs a player of attack a
CombatDamage(z, a) == IF z - a < 0 THEN 0 ELSE IF z - a > 4 THEN 4 ELSE z - a

\* C11: an accepted bash through a closed side toward an explored neighbour
\* opens the side bashed in the room left and the opposite side in the
\* neighbour, puts the player in the neighbour, costs the damage of a fight
\* with 3 zombies and draws and resolves no event card; no other tile and
\* no deck changes.
C11_BashIntoExploredRoom ==
  \A direction \in DirectionInputs :
    LET dir == Upper(direction)
        here == player.location
        target == _update_location(State, dir)
    IN (/\ completed_turn_sequence
        /\ dir \in Dirs
        /\ dir \notin possible_exits(_current_room(State))
        /\ is_explored(board, target))
         => \A r \in bash_through_wall(State, direction) :
              /\ r.call.result = "done"
              /\ r.player.location = target
              /\ DOMAIN r.board.tile_map = DOMAIN board.tile_map
              /\ \A c \in DOMAIN board.tile_map :
                   r.board.tile_map[c] =
                     [board.tile_map[c] EXCEPT !.exits =
                        @ \cup (IF c = here THEN {dir} ELSE {})
                          \cup (IF c = target THEN {_opposite_direction(dir)} ELSE {})]
              /\ r.player.health = player.health - CombatDamage(3, player.attack)
              /\ r.player.attack = player.attack
              /\ r.player.items = player.items
              /\ r.board.dev_cards = board.dev_cards
              /\ r.board.indoor_tiles = board.indoor_tiles
              /\ r.board.outdoor_tiles = board.outdoor_tiles
              /\ r.call.resolved = 0
              /\ r.call.choices = <<>>

\* a bash completed into a room explored before, both doors now open
C11_Witness ==
  /\ call.op = "bash"
  /\ call.result = "done"
  /\ call.drawn = NoTile
  /\ call.resolved = 0
  /\ player.location = call.entered
  /\ _opposite_direction(call.dir) \in possible_exits(_current_room(State))

\* C12, as claimed: an accepted cower adds 3 to health, takes exactly one
\* card off the event deck and leaves location, attack, items, totem and
\* tile map alone.  With the event deck empty the cower is accepted all the
\* same and no card is taken.
C12_CowerBurnsOneCard ==
  [][ (call'.op = "cower" /\ call'.result = "done")
        => /\ player' = [player EXCEPT !.health = @ + 3]
           /\ board'.dev_cards.count = board.dev_cards.count - 1
           /\ board'.tile_map = board.tile_map
    ]_vars

\* C13: a fight with z zombies leaves the health as it is when z - attack
\* is negative and lowers it by min(z - attack, 4) otherwise, never by more
\* than 4, and changes nothing else of the player, the location included;
\* 3 against attack 2 costs 1, 2 against 5 costs 0, 10 against 0 costs 4.
C13_FightDamage ==
  /\ \A z \in 0..MaxZombies :
       LET r == _fight_zombies(State, z)
       IN /\ r.player = [player EXCEPT !.health = @ - CombatDamage(z, player.attack)]
          /\ r.player.health <= player.health
          /\ r.player.health >= player.health - 4
          /\ r.board = board
  /\ _fight_zombies([State EXCEPT !.player.attack = 2], 3).player.health
       = player.health - 1
  /\ _fight_zombies([State EXCEPT !.player.attack = 5], 2).player.health
       = player.health
  /\ _fight_zombies([State EXCEPT !.player.attack = 0], 10).player.health
       = player.health - 4

\* a player without attack after one fight against a horde: 4 health lost
C13_Witness ==
  /\ call.op = "fight"
  /\ call.result = "done"
  /\ player.attack = 0
  /\ player.health = StartHealth - 4

\* C14: a request in which Run was chosen on a zombie card ends with the
\* player in a room that was explored and lies next to the room of the
\* card through one of its open exits; it costs 1 health, or one Oil and
\* no health when Oil is held; the fight with the card's zombies is not
\* applied (a bash has fought its own 3 zombies before the card).
C14_RunCostsHealthOrOil ==
  [][ \A i \in 1..Len(call'.choices) :
        (/\ call'.result = "done"
         /\ call'.choices[i].prompt = "action"
         /\ call'.choices[i].answer = "R")
          => LET from == IF call'.entered = NoLocation
                           THEN player.location ELSE call'.entered
                 escape == call'.choices[i + 1]
                 health == IF call'.op = "bash"
                             THEN player.health - CombatDamage(3, player.attack)
                             ELSE player.health
             IN /\ escape.prompt = "escape"
                /\ escape.answer \in possible_exits(board'.tile_map[from])
                /\ player'.location = UpdateLocationFrom(from, escape.answer)
                /\ is_explored(board', player'.location)
                /\ player'.attack = player.attack
                /\ IF "Oil" \in Held(player.items)
                     THEN /\ player'.items = RemoveFirst(player.items, "Oil")
                          /\ player'.health = health
                     ELSE /\ player'.items = player.items
                          /\ player'.health = health - 1
    ]_vars

\* the third card of a game: an item card brought Oil and no harm, then Run
\* was chosen on a zombie card and the Oil went instead of the health
C14_Witness ==
  /\ call.result = "done"
  /\ \E i \in 1..Len(call.choices) : call.choices[i].prompt = "escape"
  /\ board.dev_cards.count = LongDevDeckSize - 3
  /\ player.items = <<>>
  /\ player.attack = StartAttack + 1
  /\ player.health = StartHealth

\* C15: the player never holds more than 2 items; the inventory grows only
\* from fewer than 2 items, and at capacity it changes, size kept, only in
\* a request where the player answered Yes and named a held item to give up.
C15_AtMostTwoItems ==
  /\ [](Len(player.items) <= 2)
  /\ [][ /\ Len(player'.items) > Len(player.items) => Len(player.items) < 2
         /\ (/\ Len(player.items) = 2
             /\ Len(player'.items) = 2
             /\ player'.items /= player.items)
              => \E i \in 1..Len(call'.choices) :
                   /\ call'.choices[i].prompt = "replace"
                   /\ call'.choices[i].answer = "Y"
                   /\ call'.choices[i + 1].prompt = "item"
       ]_vars

\* two items held after one was given up for a new one
C15_Witness ==
  /\ Len(player.items) = 2
  /\ call.result = "done"
  /\ \E i \in 1..Len(call.choices) :
       /\ call.choices[i].prompt = "item"
       /\ call.choices[i].answer \notin Held(player.items)

\* C16: a totem request in a room that is neither the Evil Temple nor the
\* Graveyard, or in the Graveyard without the totem, is rejected and
\* changes nothing, no card drawn.  A find completed in the Evil Temple has
\* resolved exactly one event, and holds the totem afterwards exactly if it
\* was held before or the game is not over: the player lives and no GAME
\* OVER line was printed.
C16_TotemRequests ==
  LET room == _current_room(State).name
  IN /\ (room \notin {"Evil Temple", "Graveyard"}
           \/ (room = "Graveyard" /\ ~player.has_totem))
          => \A r \in find_or_burry_totem(State) :
               r.call.result = "rejected" /\ Same(r)
     /\ room = "Evil Temple"
          => \A r \in find_or_burry_totem(State) :
               r.call.result = "done"
                 => /\ r.call.resolved = 1
                    /\ r.player.has_totem
                         <=> (player.has_totem
                                \/ (r.player.health > 0 /\ r.reported = reported))

\* a totem request turned down in the Graveyard, no totem in hand
C16_Witness ==
  /\ call.op = "totem"
  /\ call.result = "rejected"
  /\ _current_room(State).name = "Graveyard"
  /\ ~player.has_totem

\* C17: a win is reported only by a totem request made in the Graveyard
\* with the totem in hand, whose one event left the player alive and
\* printed no GAME OVER line; the totem comes into the player's hand only
\* by a totem request in the Evil Temple that ended the same way, so who
\* has won holds the totem; no move, bash or cower reports a win.
C17_WinOnlyByBurying ==
  /\ []("win" \in reported => player.has_totem)
  /\ [][ /\ ("win" \notin reported /\ "win" \in reported')
              => /\ call'.op = "totem"
                 /\ call'.result = "done"
                 /\ _current_room(State).name = "Graveyard"
                 /\ player.has_totem
                 /\ call'.resolved = 1
                 /\ player'.health > 0
                 /\ reported' = reported \cup {"win"}
         /\ (~player.has_totem /\ player'.has_totem)
              => /\ call'.op = "totem"
                 /\ call'.result = "done"
                 /\ _current_room(State).name = "Evil Temple"
                 /\ call'.resolved = 1
                 /\ player'.health > 0
                 /\ reported' = reported
         /\ call'.op /= "totem" => (reported' \ reported) \subseteq {"time", "died"}
       ]_vars

\* the totem buried: a win reported to a living player in the Graveyard
C17_Witness ==
  /\ "win" \in reported
  /\ call.op = "totem"
  /\ call.result = "done"
  /\ player.health > 0

\* C18, as claimed: after every request that has run to its end the labels
\* last pushed to the observer show the state as it is, a request that ends
\* in a loss included.  _game_over returns on a loss without pushing the
\* labels.
C18_LabelsShowTheState ==
  (call.op \in {"move", "bash", "cower", "totem"} /\ call.result = "done")
    => gui = Snapshot(State)

\* the side next to d going clockwise
Clockwise(d) ==
  CASE d = "N" -> "E" [] d = "E" -> "S" [] d = "S" -> "W" [] d = "W" -> "N"

\* where side d lies after k clockwise quarter turns
RECURSIVE TurnSide(_, _)
TurnSide(d, k) == IF k = 0 THEN d ELSE TurnSide(Clockwise(d), k - 1)

\* C19: for the tile at hand, every entry side that is an open exit and
\* every direction of arrival, rotate turns the tile clockwise by the one
\* number of quarter turns in 0..3 that brings the entry side opposite to
\* the direction of arrival; every exit moves with the turn, so their
\* number is kept and the entry side ends open, and the tile returned is
\* the tile given, name and category untouched.
C19_RotateAlignsEntry ==
  LET tile == _current_room(State)
  IN \A entry \in possible_exits(tile), exit \in Dirs :
       LET k == Rotations(exit, entry)
           turned == rotate(tile, entry, exit)
       IN /\ k \in 0..3
          /\ TurnSide(entry, k) = _opposite_direction(exit)
          /\ \A j \in 0..3 : TurnSide(entry, j) = _opposite_direction(exit) => j = k
          /\ turned.exits = {TurnSide(d, k) : d \in tile.exits}
          /\ Cardinality(turned.exits) = Cardinality(tile.exits)
          /\ _opposite_direction(exit) \in turned.exits
          /\ turned.name = tile.name
          /\ turned.tile_type = tile.tile_type

\* a tile turned for an open entry side: it lies differently now and is
\* open toward the room the player came from
C19_Witness ==
  /\ call.op = "rotate"
  /\ call.resolved = 1
  /\ call.choices[1].answer \in possible_exits(call.drawn)
  /\ _current_room(State) = rotate(call.drawn, call.choices[1].answer, call.dir)
  /\ _current_room(State).exits /= call.drawn.exits
  /\ _opposite_direction(call.dir) \in _current_room(State).exits

\* four rotate calls in a row with one pair
RotateFourTimes(tile, entry, exit) ==
  rotate(rotate(rotate(rotate(tile, entry, exit), entry, exit), entry, exit),
         entry, exit)

\* C20: rotate applied four times in a row with the same (entry, exit)
\* gives the tile its exits back, for every tile and every pair.
C20_FourRotationsRestore ==
  /\ \A entry \in Dirs, exit \in Dirs :
       RotateFourTimes(_current_room(State), entry, exit) = _current_room(State)
  /\ (call.op = "rotate" /\ call.resolved = 4)
       => _current_room(State) = call.drawn

\* a tile of one exit after four quarter turns made with one pair
C20_Witness ==
  /\ call.op = "rotate"
  /\ call.resolved = 4
  /\ Rotations(call.dir, call.choices[1].answer) = 1
  /\ Cardinality(call.drawn.exits) = 1
  /\ _current_room(State) = call.drawn

\* C21, as claimed: add_exit opens side d when d is one of N, E, S, W; handed
\* anything else, the empty string and 'NE' included, it raises and leaves
\* the exits as they were, so the exits of a tile stay within the four
\* directions.  The test of add_exit is `direction in 'NESW'`, true of every
\* substring of 'NESW'.
C21_AddExitOnlyCardinal ==
  LET tile == _current_room(State)
  IN /\ tile.exits \subseteq Dirs
     /\ \A d \in ExitInputs :
          LET a == add_exit(tile, d)
          IN IF d \in Dirs
               THEN a.ok /\ a.tile = [tile EXCEPT !.exits = @ \cup {d}]
               ELSE ~a.ok /\ a.tile = tile

\* the tiles k draws in a row return and the deck they leave
RECURSIVE DrawRun(_, _)
DrawRun(deck, k) ==
  IF k = 0
    THEN [tiles |-> <<>>, deck |-> deck]
    ELSE LET d == draw(deck)
             rest == DrawRun(d.deck, k - 1)
         IN [tiles |-> <<d.tile>> \o rest.tiles, deck |-> rest.deck]

\* C22: from a deck of n items, the first n draws return the n items in
\* deck order, none of them None, each lowering count by exactly 1; draw
\* n + 1 and every later draw return None and leave count and contents as
\* they are.
C22_DrawInDeckOrder ==
  /\ LET deck == board.indoor_tiles
         n == Len(deck.tiles)
     IN \A k \in 0..(n + 2) :
          LET run == DrawRun(deck, k)
              got == Min(k, n)
          IN /\ \A i \in 1..k :
                  run.tiles[i] = IF i <= n THEN deck.tiles[i] ELSE NoTile
             /\ \A i \in 1..got : run.tiles[i] /= NoTile
             /\ run.deck.count = deck.count - got
             /\ run.deck.tiles = SubSeq(deck.tiles, got + 1, n)
             /\ k > n => DrawRun(deck, k).deck = DrawRun(deck, n).deck
  /\ call.op = "draw"
       => LET last == call.choices[Len(call.choices)]
          IN IF last.before = <<>>
               THEN call.drawn = NoTile /\ board.indoor_tiles.tiles = <<>>
               ELSE /\ call.drawn = Head(last.before)
                    /\ board.indoor_tiles.tiles = Tail(last.before)

\* a deck of three tiles drawn empty in deck order, then two draws more
C22_Witness ==
  /\ Len(call.choices) = 5
  /\ \A i \in 1..5 : call.choices[i].op = "draw"
  /\ Len(call.choices[1].before) = 3
  /\ \A i \in 1..3 : call.choices[i].tile = call.choices[1].before[i]
  /\ call.choices[4].tile = NoTile
  /\ call.drawn = NoTile
  /\ board.indoor_tiles.count = 0

\* C23: draw_by_name returns the first item of the deck whose name is the
\* name asked for and removes that item and no other, the items left
\* keeping their order and count falling by 1; when no item has the name,
\* an empty deck included, it returns None and leaves the deck and its
\* count as they are.
C23_DrawByNameTakesFirstMatch ==
  /\ LET deck == board.indoor_tiles
         n == Len(deck.tiles)
     IN \A name \in DeckNames :
          LET d == draw_by_name(deck, name)
              named == {i \in 1..n : deck.tiles[i].name = name}
          IN IF named = {}
               THEN d.tile = NoTile /\ d.deck = deck
               ELSE \E i \in named :
                      /\ \A j \in 1..(i - 1) : deck.tiles[j].name /= name
                      /\ d.tile = deck.tiles[i]
                      /\ d.deck.tiles =
                           SubSeq(deck.tiles, 1, i - 1) \o SubSeq(deck.tiles, i + 1, n)
                      /\ d.deck.count = deck.count - 1
  /\ call.op = "draw_by_name"
       => LET last == call.choices[Len(call.choices)]
              left == board.indoor_tiles.tiles
          IN IF call.drawn = NoTile
               THEN /\ left = last.before
                    /\ \A i \in 1..Len(left) : left[i].name /= last.name
               ELSE /\ call.drawn.name = last.name
                    /\ Len(left) = Len(last.before) - 1
                    /\ \A i \in 1..Len(left) : left[i] /= call.drawn

\* a Bathroom drawn by name from under another tile, the second Bathroom
\* left behind it
C23_Witness ==
  /\ call.op = "draw_by_name"
  /\ call.drawn.name = "Bathroom"
  /\ LET last == call.choices[Len(call.choices)]
     IN /\ Len(last.before) = 4
        /\ last.before[2] = call.drawn
        /\ last.before[4].name = "Bathroom"
        /\ board.indoor_tiles.tiles = <<last.before[1], last.before[3], last.before[4]>>

\* C24: after construction and after any mix of draw and draw_by_name
\* calls the count of a deck is the number of items left in it; no call
\* raises the count, and an item a call returns has left the deck and was
\* returned by no call before.
C24_CountIsWhatIsLeft ==
  /\ [](board.indoor_tiles.count = Len(board.indoor_tiles.tiles))
  /\ [][ /\ board'.indoor_tiles.count <= board.indoor_tiles.count
         /\ call'.drawn /= NoTile
              => /\ \A i \in 1..Len(call.choices) : call.choices[i].tile /= call'.drawn
                 /\ \A i \in 1..Len(board'.indoor_tiles.tiles) :
                      board'.indoor_tiles.tiles[i] /= call'.drawn
                 /\ board'.indoor_tiles.count = board.indoor_tiles.count - 1
         /\ call'.drawn = NoTile => board'.indoor_tiles = board.indoor_tiles
       ]_vars

\* a deck of four emptied by draws from the top and by name in turn
C24_Witness ==
  /\ board.indoor_tiles.count = 0
  /\ board.indoor_tiles.tiles = <<>>
  /\ Len(call.choices) = 4
  /\ call.choices[1].op = "draw" /\ call.choices[2].op = "draw_by_name"
  /\ call.choices[3].op = "draw" /\ call.choices[4].op = "draw_by_name"
  /\ \A i \in 1..4 : call.choices[i].tile /= NoTile

\* C25: the game-over evaluation reports a loss when health is 0 or less;
\* with the event deck empty and the clock at its last label, 11 PM, it
\* reports the loss by time and leaves the clock alone; otherwise, with the
\* event deck empty, it moves the clock on by exactly one label, and with
\* cards left it leaves the clock alone.  Over any sequence of requests
\* the clock never moves back and has moved only when the event deck is
\* empty.
C25_GameOverAndClock ==
  /\ [](LET g == _game_over(State)
            empty == board.dev_cards.count = 0
            last == board.time = FinalTime
        IN /\ g.over <=> (player.health <= 0 \/ (empty /\ last))
           /\ (empty /\ last)
                => /\ g.s.reported = reported \cup {"time"}
                   /\ g.s.board = board
           /\ (empty /\ ~last)
                => TimeIndex(g.s.board.time) = TimeIndex(board.time) + 1
           /\ ~empty => g.s.board.time = board.time
           /\ (player.health <= 0 /\ ~(empty /\ last))
                => g.s.reported = reported \cup {"died"}
           /\ ~g.over => g.s.reported = reported
           /\ g.s.player = player
           /\ g.s.board.dev_cards = board.dev_cards)
  /\ [][ /\ TimeIndex(board'.time) >= TimeIndex(board.time)
         /\ board'.time /= board.time => board'.dev_cards.count = 0
         /\ ("time" \in reported' \ reported)
              => (board'.time = FinalTime /\ board'.dev_cards.count = 0)
       ]_vars

\* the loss by time: the event deck spent, the clock at 11 PM after moving
\* there label by label, the player still in health
C25_Witness ==
  /\ "time" \in reported
  /\ board.time = FinalTime
  /\ board.dev_cards.count = 0
  /\ player.health > 0
  /\ call.result = "done"

\* the rooms the bonus is tried in
BonusRooms == {"Kitchen", "Garden", "Storage", "Foyer", "Evil Temple"}

\* C26: once the content of an event is applied, the room bonus is given
\* exactly when the game is not over and the player did not run away: +1
\* health in the Kitchen and in the Garden, one more item find in the
\* Storage (one more card taken, an item gained or the replacement
\* question asked), nothing in any other room; after a run and after a
\* game over player and event deck stay as they are, whatever the room.
\* A request in which the player ran has taken the one card of its event
\* and has brought neither an item nor health.
C26_RoomBonus ==
  /\ [](\A name \in BonusRooms, runaway \in BOOLEAN :
          LET s == [State EXCEPT !.call.result = "running",
                                 !.board.tile_map[player.location].name = name]
              cards == board.dev_cards.count
              over == player.health <= 0 \/ (cards = 0 /\ board.time = FinalTime)
              after == RoomBonus(s, runaway)
          IN /\ after /= {}
             /\ \A r \in after :
                  IF over \/ runaway \/ name \notin {"Kitchen", "Garden", "Storage"}
                    THEN /\ r.player = player
                         /\ r.board.dev_cards = board.dev_cards
                         /\ r.call.choices = call.choices
                    ELSE IF name \in {"Kitchen", "Garden"}
                      THEN /\ r.player = [player EXCEPT !.health = @ + 1]
                           /\ r.board.dev_cards = board.dev_cards
                           /\ r.call.choices = call.choices
                      ELSE IF cards = 0
                        THEN /\ r.player = player
                             /\ r.call.result = "crashed" \/ "time" \in r.reported
                        ELSE /\ r.board.dev_cards.count = cards - 1
                             /\ r.player.health >= player.health
                             /\ IF Len(player.items) < ItemCapacity
                                  THEN /\ Len(r.player.items) = Len(player.items) + 1
                                       /\ r.player.attack > player.attack
                                       /\ r.call.choices = call.choices
                                  ELSE /\ Len(r.call.choices) > Len(call.choices)
                                       /\ r.call.choices[Len(call.choices) + 1].prompt
                                            = "replace")
  /\ [][ (/\ call'.result = "done"
          /\ \E i \in 1..Len(call'.choices) :
               /\ call'.choices[i].prompt = "action"
               /\ call'.choices[i].answer = "R")
           => /\ board'.dev_cards.count = board.dev_cards.count - 1
              /\ Len(player'.items) <= Len(player.items)
              /\ player'.attack = player.attack
              /\ player'.health <= player.health
       ]_vars

\* a move into the Storage whose card cost 1 health and whose room bonus
\* was an item, Oil, taken as the last card of the event deck
C26_Witness ==
  /\ call.op = "move"
  /\ call.result = "done"
  /\ call.resolved = 1
  /\ call.choices = <<>>
  /\ _current_room(State).name = "Storage"
  /\ player.health = StartHealth - 1
  /\ player.items = <<"Oil">>
  /\ board.dev_cards.count = DevDeckSize - 2

\* C27: an item found while 2 items are held asks the replacement question;
\* on the answer No the question is left, the item found is dropped, and
\* inventory, attack and health are as before; the item to give up is
\* asked for, and inventory, attack or health change, only after the
\* answer Yes.  A request in which every replacement question was answered
\* No, begun with 2 items held and without a run, ends with the inventory
\* and the attack it began with.
C27_NoKeepsTheInventory ==
  /\ [](LET s == [State EXCEPT !.call.result = "running"]
            n == Len(call.choices)
            over == \/ player.health <= 0
                    \/ (board.dev_cards.count = 0 /\ board.time = FinalTime)
        IN (/\ Len(player.items) >= 2
            /\ ~over
            /\ board.dev_cards.count > 0)
             => /\ \E r \in _get_new_item(s) : r.call.choices[n + 1].answer = "N"
                /\ \A r \in _get_new_item(s) :
                     /\ r.call.result = "running"
                     /\ r.call.choices[n + 1].prompt = "replace"
                     /\ r.call.choices[n + 1].answer \in {"Y", "N"}
                     /\ r.board.dev_cards.count = board.dev_cards.count - 1
                     /\ IF r.call.choices[n + 1].answer = "N"
                          THEN /\ r.player = player
                               /\ Len(r.call.choices) = n + 1
                          ELSE /\ Len(r.call.choices) = n + 2
                               /\ r.call.choices[n + 2].prompt = "item"
                               /\ r.call.choices[n + 2].answer \in Held(player.items)
                               /\ Len(r.player.items) = 2
                               /\ r.player.attack > player.attack)
  /\ [][ (/\ call'.result = "done"
          /\ Len(player.items) = 2
          /\ \E i \in 1..Len(call'.choices) : call'.choices[i].prompt = "replace"
          /\ \A i \in 1..Len(call'.choices) :
               /\ call'.choices[i].prompt = "replace" => call'.choices[i].answer = "N"
               /\ call'.choices[i].prompt /= "escape")
           => /\ player'.items = player.items
              /\ player'.attack = player.attack
       ]_vars

\* a request that has run to its end with two items held and the
\* replacement question answered No, the player as strong as at the
\* second find: attack 1 and one more for each of two items, Oil among them
C27_Witness ==
  /\ call.result = "done"
  /\ Len(player.items) = 2
  /\ \E i \in 1..Len(call.choices) :
       /\ call.choices[i].prompt = "replace"
       /\ call.choices[i].answer = "N"
  /\ \A i \in 1..Len(call.choices) : call.choices[i].prompt /= "item"
  /\ player.items = <<"Oil", "Oil">>
  /\ player.attack = StartAttack + 2

\* items handed to _update_attack: those of the cards and some others
AttackItems == ItemNames \cup {"Golf Club", "Chainsaw", "Candle"}

\* C28: the attack of the player never falls.  Whatever the item, taking
\* it into the inventory raises the attack by 1 at least; a request that
\* changed the inventory without a run has raised the attack, and one in
\* which Oil was spent on a run has left the attack as it was.
C28_AttackNeverFalls ==
  /\ [](\A item \in AttackItems :
          LET r == _update_attack(State, item)
          IN /\ r.player.attack >= player.attack + 1
             /\ r.player.health >= player.health
             /\ r.player.items = player.items)
  /\ [][ /\ player'.attack >= player.attack
         /\ (/\ player'.items /= player.items
             /\ \A i \in 1..Len(call'.choices) : call'.choices[i].prompt /= "escape")
              => player'.attack > player.attack
         /\ Len(player'.items) < Len(player.items)
              => /\ player'.items = RemoveFirst(player.items, "Oil")
                 /\ player'.attack = player.attack
       ]_vars

\* three items found and two held: one was given up for another, and the
\* attack is up by one for each of the three at least
C28_Witness ==
  /\ call.result = "done"
  /\ Len(player.items) = 2
  /\ player.attack >= StartAttack + 3
  /\ \E i \in 1..Len(call.choices) :
       /\ call.choices[i].prompt = "item"
       /\ call.choices[i].answer \in {"Machete", "Soda Can"}
       /\ call.choices[i].answer \notin Held(player.items)

\* C29, as claimed: the set of explored coordinates never shrinks, and the
\* tile stored at an explored coordinate is never replaced by another
\* tile: a new room and the Patio laid next to the Dining Room go to
\* coordinates that were unexplored.  The Patio is laid one row above or
\* below the Dining Room without a look at what lies there.
C29_PlacedOnUnexplored ==
  [][ /\ DOMAIN board.tile_map \subseteq DOMAIN board'.tile_map
      /\ \A c \in DOMAIN board.tile_map :
           /\ board'.tile_map[c].name = board.tile_map[c].name
           /\ board'.tile_map[c].tile_type = board.tile_map[c].tile_type
    ]_vars

\* C30: whenever Run is chosen on a zombie event, be it after a move, an
\* exploring bash or a totem request, the current room has an open exit to
\* an explored coordinate: the escape question follows with a non-empty set
\* of directions, each an open exit of the room the player flees from, and
\* no request is left waiting at an escape question without an answer.
C30_EscapeAlwaysPossible ==
  /\ [](call.result /= "hung")
  /\ [][ \A i \in 1..Len(call'.choices) :
           (call'.choices[i].prompt = "action" /\ call'.choices[i].answer = "R")
             => /\ i < Len(call'.choices)
                /\ call'.choices[i + 1].prompt = "escape"
                /\ call'.choices[i + 1].valid /= {}
                /\ call'.choices[i + 1].answer \in call'.choices[i + 1].valid
                /\ LET from == IF call'.entered = NoLocation
                                 THEN player.location ELSE call'.entered
                   IN \A d \in call'.choices[i + 1].valid :
                        /\ d \in possible_exits(board'.tile_map[from])
                        /\ is_explored(board', UpdateLocationFrom(from, d))
       ]_vars

\* the player bashed into a new room, met zombies there and ran back from
\* it to a room explored before
C30_Witness ==
  /\ call.op = "bash"
  /\ call.result = "done"
  /\ call.drawn /= NoTile
  /\ \E i \in 1..Len(call.choices) :
       /\ call.choices[i].prompt = "escape"
       /\ player.location = UpdateLocationFrom(call.entered, call.choices[i].answer)
  /\ player.location /= call.entered

\* the rooms at both ends of a step from `from` in direction d have their
\* doors open toward each other on board b
DoorsMeet(b, from, d) ==
  LET to == UpdateLocationFrom(from, d)
  IN /\ is_explored(b, from)
     /\ is_explored(b, to)
     /\ d \in possible_exits(b.tile_map[from])
     /\ _opposite_direction(d) \in possible_exits(b.tile_map[to])

\* C31, as claimed: every relocation of the player, by a move, a bash or a
\* run from zombies, goes through doors that meet: the room left is open
\* toward the destination, the destination is open toward the room left,
\* and the destination is a key of the tile map when the request is
\* complete.  A run tests the door of the room fled from only, and the
\* Dining Room is laid without being turned toward the room left.
C31_RelocationsThroughAlignedDoors ==
  [][ call'.result = "done"
        => /\ call'.entered /= NoLocation
                => DoorsMeet(board', player.location, call'.dir)
           /\ \A i \in 1..Len(call'.choices) :
                call'.choices[i].prompt = "escape"
                  => DoorsMeet(board',
                               IF call'.entered = NoLocation
                                 THEN player.location ELSE call'.entered,
                               call'.choices[i].answer)
           /\ is_explored(board', player'.location)
    ]_vars

====
